---- MODULE Spec2Model ----
(***************************************************************************)
(* Phase 2 clustering stage (phase2-hdbscan.py): load items, keep those    *)
(* with an embedding, cap the items per publisher, hand the embeddings to  *)
(* HDBSCAN, partition the items by label and write the result.             *)
(*                                                                         *)
(* Three specifications:                                                   *)
(*   Spec          one run of main()                                       *)
(*   SpecSampling  uniform_sampling applied to drawn arguments             *)
(*   SpecHdbscan   run_hdbscan applied to drawn arguments                  *)
(*                                                                         *)
(* The HDBSCAN library is external: the model records the arguments the    *)
(* program hands to it and lets it answer with any label per vector, or    *)
(* with a fatal error.  float32 values are fixed-point integers in units   *)
(* of 1/Scale.  Python's 0-based positions are 1-based here.               *)
(***************************************************************************)
EXTENDS Integers, Sequences, FiniteSets, TLC

VARIABLES pc, argv, min_cluster_size, metric, items, items_with_embedding,
          max_per_publisher, sampled_items, embeddings, engineCall, labels,
          outputFile, calls

vars == <<pc, argv, min_cluster_size, metric, items, items_with_embedding,
          max_per_publisher, sampled_items, embeddings, engineCall, labels,
          outputFile, calls>>

----------------------------------------------------------------------------
(* Bounds of the model *)

\* longest item list read from the input file
MaxItems == 4
\* largest max_per_publisher handed to uniform_sampling on its own
MaxLimit == 3
\* most vectors handed to run_hdbscan on its own
MaxVectors == 2
\* fixed-point unit: a float32 value x is the integer x * Scale
Scale == 100

(* Program constants *)

\* main: uniform_sampling(items_with_embedding, max_per_publisher=3)
MaxPerPublisher == 3
\* HDBSCAN(min_samples=2)
MinSamples == 2
\* the label of an unclustered point: `if label == -1`
NoiseLabel == -1

----------------------------------------------------------------------------
(* Inputs *)

Publishers == {"pubA", "pubB"}

\* item["source"]: with a publisher, or without the key
Sources == {[publisher |-> p] : p \in Publishers} \cup {[name |-> "anonymous"]}

\* item["summaryEmbedding"]: absent/empty, or a vector
EmbeddingValues == {<<>>, <<3 * Scale, 4 * Scale>>}

\* the lists of at most n items; an item's id is its position in the input
ItemListsUpTo(n) ==
    UNION { { [i \in 1..k |-> [id |-> i, source |-> f[i][1], summaryEmbedding |-> f[i][2]]]
              : f \in [1..k -> Sources \X EmbeddingValues] }
            : k \in 0..n }

ItemLists == ItemListsUpTo(MaxItems)

\* sys.argv[3]: text that int() accepts, or not
SizeArgs == { [isInt |-> TRUE, val |-> v] : v \in 0..(MaxItems + 1) }
            \cup { [isInt |-> FALSE, val |-> 0] }

\* sys.argv: its length and the arguments main reads
ArgvValues ==
    { [n |-> k, date |-> "", size |-> [isInt |-> FALSE, val |-> 0], metric |-> ""] : k \in 1..3 }
    \cup { [n |-> 4, date |-> "d1", size |-> s, metric |-> ""] : s \in SizeArgs }
    \cup { [n |-> 5, date |-> "d1", size |-> s, metric |-> "cosine"] : s \in SizeArgs }

\* labels the cluster engine can give a point
Labels == {NoiseLabel, 0, 1}

NoCall == [X |-> <<>>, min_cluster_size |-> 0, min_samples |-> 0, metric |-> "",
           allow_single_cluster |-> FALSE, cluster_selection_epsilon |-> "",
           cluster_selection_method |-> "", gen_min_span_tree |-> FALSE]

----------------------------------------------------------------------------
(* Embedding filter *)

\* item.get("summaryEmbedding") and len(item["summaryEmbedding"]) > 0
HasEmbedding(item) == Len(item.summaryEmbedding) > 0

FilterItems(its) == SelectSeq(its, HasEmbedding)

----------------------------------------------------------------------------
(* uniform_sampling *)

\* item["source"]["publisher"] raises KeyError without the key
HasPublisher(item) == "publisher" \in DOMAIN item.source

UnderLimitInclusive(count, max) == count <= max

UnderLimitOffByOne(count, max) == count < max - 1

\* if counts[publisher] < max_per_publisher
UnderLimit(count, max) == count < max

RECURSIVE SamplingLoop(_, _, _, _, _)
SamplingLoop(its, i, counts, sampled, max) ==
    IF i > Len(its) THEN [raised |-> FALSE, value |-> sampled]
    ELSE IF ~HasPublisher(its[i]) THEN [raised |-> TRUE, value |-> <<>>]
    ELSE LET publisher == its[i].source.publisher IN
         IF UnderLimit(counts[publisher], max)
         THEN SamplingLoop(its, i + 1, [counts EXCEPT ![publisher] = @ + 1],
                           Append(sampled, its[i]), max)
         ELSE SamplingLoop(its, i + 1, counts, sampled, max)

\* counts = defaultdict(int); sampled = []
uniform_sampling(its, max) ==
    SamplingLoop(its, 1, [p \in Publishers |-> 0], <<>>, max)

----------------------------------------------------------------------------
(* run_hdbscan *)

Abs(x) == IF x < 0 THEN -x ELSE x

RECURSIVE SumSquares(_)
SumSquares(v) == IF v = <<>> THEN 0 ELSE Head(v) * Head(v) + SumSquares(Tail(v))

RECURSIVE SumAbs(_)
SumAbs(v) == IF v = <<>> THEN 0 ELSE Abs(Head(v)) + SumAbs(Tail(v))

\* the square root, truncated to the fixed-point grid
ISqrt(n, upper) == CHOOSE r \in 0..upper : r * r <= n /\ (r + 1) * (r + 1) > n

\* a / b rounded to the nearest grid value, b > 0
RoundDiv(a, b) == IF a >= 0 THEN (2 * a + b) \div (2 * b) ELSE -((2 * (-a) + b) \div (2 * b))

\* the L2 norm of a row; sklearn replaces a zero norm by 1.0
RowNorm(v) ==
    LET n == ISqrt(SumSquares(v), SumAbs(v)) IN IF n = 0 THEN Scale ELSE n

NormalizeRow(v) == [i \in 1..Len(v) |-> RoundDiv(v[i] * Scale, RowNorm(v))]

\* sklearn.preprocessing.normalize(embeddings): every row scaled to unit L2 norm
Normalize(X) == [i \in 1..Len(X) |-> NormalizeRow(X[i])]

CosineVectorsRaw(X) == X

\* normalize(embeddings).astype(np.float32, copy=False): on float32 rows the
\* cast changes nothing, the rows are already on the grid
CosineVectors(X) == Normalize(X)

\* metric_name = "euclidean" in the cosine branch
CosineMetricName(m) == "euclidean"

\* what run_hdbscan hands to hdbscan.HDBSCAN(...).fit_predict
HdbscanCall(X, mcs, m) ==
    [X |-> IF m = "cosine" THEN CosineVectors(X) ELSE X,
     min_cluster_size |-> mcs,
     min_samples |-> MinSamples,
     metric |-> IF m = "cosine" THEN CosineMetricName(m) ELSE m,
     allow_single_cluster |-> FALSE,
     cluster_selection_epsilon |-> "0.05",
     cluster_selection_method |-> "leaf",
     gen_min_span_tree |-> FALSE]

\* fit_predict answers with one label per row
LabelSequences(n) == [1..n -> Labels]

----------------------------------------------------------------------------
(* Result assembly *)

RECURSIVE SumItems(_)
SumItems(cs) == IF cs = <<>> THEN 0 ELSE Len(Head(cs).items) + SumItems(Tail(cs))

ClusterIds(cs) == {cs[k].cluster_id : k \in 1..Len(cs)}

AddToClusterOverwrite(cs, label, item) ==
    IF label \in ClusterIds(cs)
    THEN [k \in 1..Len(cs) |->
            IF cs[k].cluster_id = label THEN [cs[k] EXCEPT !.items = <<item>>] ELSE cs[k]]
    ELSE Append(cs, [cluster_id |-> label, items |-> <<item>>])

AddToClusterSorted(cs, label, item) ==
    IF label \in ClusterIds(cs)
    THEN [k \in 1..Len(cs) |->
            IF cs[k].cluster_id = label
            THEN [cs[k] EXCEPT !.items = Append(@, item)] ELSE cs[k]]
    ELSE LET lower == SelectSeq(cs, LAMBDA c : c.cluster_id < label)
             upper == SelectSeq(cs, LAMBDA c : c.cluster_id > label)
         IN  lower \o <<[cluster_id |-> label, items |-> <<item>>]>> \o upper

\* clusters[int(label)].append(item): a defaultdict(list), which keeps its keys
\* in the order of their first insertion
AddToCluster(cs, label, item) ==
    IF label \in ClusterIds(cs)
    THEN [k \in 1..Len(cs) |->
            IF cs[k].cluster_id = label
            THEN [cs[k] EXCEPT !.items = Append(@, item)] ELSE cs[k]]
    ELSE Append(cs, [cluster_id |-> label, items |-> <<item>>])

\* for idx, label in enumerate(labels): ...
RECURSIVE PartitionLoop(_, _, _, _, _)
PartitionLoop(sampled, ls, idx, cs, noise) ==
    IF idx > Len(ls) THEN [clusters |-> cs, noise_items |-> noise]
    ELSE IF ls[idx] = NoiseLabel
         THEN PartitionLoop(sampled, ls, idx + 1, cs, Append(noise, sampled[idx]))
         ELSE PartitionLoop(sampled, ls, idx + 1, AddToCluster(cs, ls[idx], sampled[idx]), noise)

Partition(sampled, ls) == PartitionLoop(sampled, ls, 1, <<>>, <<>>)

StatsCountingClusters(sampled, cs, noise) ==
    [sampled_items |-> Len(cs) + Len(noise), clusters |-> Len(cs), noise_items |-> Len(noise)]

\* "stats" of the normal path
Stats(sampled, cs, noise) ==
    [sampled_items |-> Len(sampled), clusters |-> Len(cs), noise_items |-> Len(noise)]

\* the result of the normal path
AssembledResult(date, sampled, ls) ==
    LET part == Partition(sampled, ls) IN
    [date |-> date,
     stats |-> Stats(sampled, part.clusters, part.noise_items),
     clusters |-> part.clusters,
     noise_items |-> part.noise_items]

DegenerateResultEmpty(date, filtered) ==
    [date |-> date,
     stats |-> [sampled_items |-> 0, clusters |-> 0, noise_items |-> 0],
     clusters |-> <<>>,
     noise_items |-> <<>>]

\* the result when too few items carry an embedding
DegenerateResult(date, filtered) ==
    [date |-> date,
     stats |-> [sampled_items |-> Len(filtered), clusters |-> 0, noise_items |-> Len(filtered)],
     clusters |-> <<>>,
     noise_items |-> filtered]

\* if len(items_with_embedding) < min_cluster_size
TooFew(n, mcs) == n < mcs

----------------------------------------------------------------------------
(* main *)

Init ==
    /\ pc = "start"
    /\ argv \in ArgvValues
    /\ min_cluster_size = 0
    /\ metric = ""
    /\ items = <<>>
    /\ items_with_embedding = <<>>
    /\ max_per_publisher = MaxPerPublisher
    /\ sampled_items = <<>>
    /\ embeddings = <<>>
    /\ engineCall = NoCall
    /\ labels = <<>>
    /\ outputFile = <<>>
    /\ calls = {}

\* if len(sys.argv) < 4: print usage; sys.exit(1)
Usage ==
    /\ pc = "start"
    /\ argv.n < 4
    /\ pc' = "failed"
    /\ UNCHANGED <<argv, min_cluster_size, metric, items, items_with_embedding,
                   max_per_publisher, sampled_items, embeddings, engineCall, labels,
                   outputFile, calls>>

\* min_cluster_size = int(sys.argv[3]) raises ValueError
ParseArgsFail ==
    /\ pc = "start"
    /\ argv.n >= 4
    /\ ~argv.size.isInt
    /\ pc' = "failed"
    /\ UNCHANGED <<argv, min_cluster_size, metric, items, items_with_embedding,
                   max_per_publisher, sampled_items, embeddings, engineCall, labels,
                   outputFile, calls>>

\* the arguments, then items = load_items(input_path)
LoadItems ==
    /\ pc = "start"
    /\ argv.n >= 4
    /\ argv.size.isInt
    /\ min_cluster_size' = argv.size.val
    /\ metric' = IF argv.n > 4 THEN argv.metric ELSE "euclidean"
    /\ \E its \in ItemLists : items' = its
    /\ calls' = calls \cup {"load_items"}
    /\ pc' = "loaded"
    /\ UNCHANGED <<argv, items_with_embedding, max_per_publisher, sampled_items,
                   embeddings, engineCall, labels, outputFile>>

\* load_items raises: no input file, or no "items" field in it
LoadItemsFail ==
    /\ pc = "start"
    /\ argv.n >= 4
    /\ argv.size.isInt
    /\ min_cluster_size' = argv.size.val
    /\ metric' = IF argv.n > 4 THEN argv.metric ELSE "euclidean"
    /\ calls' = calls \cup {"load_items"}
    /\ pc' = "failed"
    /\ UNCHANGED <<argv, items, items_with_embedding, max_per_publisher, sampled_items,
                   embeddings, engineCall, labels, outputFile>>

\* items_with_embedding = [item for item in items if ...]
FilterEmbeddings ==
    /\ pc = "loaded"
    /\ items_with_embedding' = FilterItems(items)
    /\ pc' = "filtered"
    /\ UNCHANGED <<argv, min_cluster_size, metric, items, max_per_publisher,
                   sampled_items, embeddings, engineCall, labels, outputFile, calls>>

\* too few items: write the result without clustering, and return
DegeneratePath ==
    /\ pc = "filtered"
    /\ TooFew(Len(items_with_embedding), min_cluster_size)
    /\ outputFile' = Append(outputFile, DegenerateResult(argv.date, items_with_embedding))
    /\ pc' = "done"
    /\ UNCHANGED <<argv, min_cluster_size, metric, items, items_with_embedding,
                   max_per_publisher, sampled_items, embeddings, engineCall, labels, calls>>

\* sampled_items = uniform_sampling(items_with_embedding, max_per_publisher=3)
Sample ==
    /\ pc = "filtered"
    /\ ~TooFew(Len(items_with_embedding), min_cluster_size)
    /\ LET r == uniform_sampling(items_with_embedding, MaxPerPublisher) IN
         /\ ~r.raised
         /\ sampled_items' = r.value
    /\ max_per_publisher' = MaxPerPublisher
    /\ calls' = calls \cup {"uniform_sampling"}
    /\ pc' = "sampled"
    /\ UNCHANGED <<argv, min_cluster_size, metric, items, items_with_embedding,
                   embeddings, engineCall, labels, outputFile>>

SampleFailAfterOpeningOutput ==
    /\ pc = "filtered"
    /\ ~TooFew(Len(items_with_embedding), min_cluster_size)
    /\ uniform_sampling(items_with_embedding, MaxPerPublisher).raised
    /\ max_per_publisher' = MaxPerPublisher
    /\ calls' = calls \cup {"uniform_sampling"}
    /\ outputFile' = Append(outputFile, DegenerateResultEmpty(argv.date, <<>>))
    /\ pc' = "failed"
    /\ UNCHANGED <<argv, min_cluster_size, metric, items, items_with_embedding,
                   sampled_items, embeddings, engineCall, labels>>

\* uniform_sampling raises KeyError on an item without a publisher
SampleFail ==
    /\ pc = "filtered"
    /\ ~TooFew(Len(items_with_embedding), min_cluster_size)
    /\ uniform_sampling(items_with_embedding, MaxPerPublisher).raised
    /\ max_per_publisher' = MaxPerPublisher
    /\ calls' = calls \cup {"uniform_sampling"}
    /\ pc' = "failed"
    /\ UNCHANGED <<argv, min_cluster_size, metric, items, items_with_embedding,
                   sampled_items, embeddings, engineCall, labels, outputFile>>

\* embeddings_list = [item["summaryEmbedding"] for item in sampled_items]
EmbeddingsOf(sampled) == [i \in 1..Len(sampled) |-> sampled[i].summaryEmbedding]

\* labels = run_hdbscan(embeddings, min_cluster_size=min_cluster_size, metric=metric)
RunHdbscan ==
    /\ pc = "sampled"
    /\ embeddings' = EmbeddingsOf(sampled_items)
    /\ engineCall' = HdbscanCall(EmbeddingsOf(sampled_items), min_cluster_size, metric)
    /\ \E ls \in LabelSequences(Len(sampled_items)) : labels' = ls
    /\ calls' = calls \cup {"run_hdbscan"}
    /\ pc' = "clustered"
    /\ UNCHANGED <<argv, min_cluster_size, metric, items, items_with_embedding,
                   max_per_publisher, sampled_items, outputFile>>

\* the cluster engine raises; the error propagates out of main
RunHdbscanFail ==
    /\ pc = "sampled"
    /\ embeddings' = EmbeddingsOf(sampled_items)
    /\ engineCall' = HdbscanCall(EmbeddingsOf(sampled_items), min_cluster_size, metric)
    /\ calls' = calls \cup {"run_hdbscan"}
    /\ pc' = "failed"
    /\ UNCHANGED <<argv, min_cluster_size, metric, items, items_with_embedding,
                   max_per_publisher, sampled_items, labels, outputFile>>

\* partition the items by label, build the result, write it
AssembleAndWrite ==
    /\ pc = "clustered"
    /\ outputFile' = Append(outputFile, AssembledResult(argv.date, sampled_items, labels))
    /\ pc' = "done"
    /\ UNCHANGED <<argv, min_cluster_size, metric, items, items_with_embedding,
                   max_per_publisher, sampled_items, embeddings, engineCall, labels, calls>>

Next ==
    \/ Usage
    \/ ParseArgsFail
    \/ LoadItems
    \/ LoadItemsFail
    \/ FilterEmbeddings
    \/ DegeneratePath
    \/ Sample
    \/ SampleFail
    \/ RunHdbscan
    \/ RunHdbscanFail
    \/ AssembleAndWrite

Spec == Init /\ [][Next]_vars

----------------------------------------------------------------------------
(* uniform_sampling on its own *)

InitSampling ==
    /\ pc = "call"
    /\ argv \in {a \in ArgvValues : a.n = 1}
    /\ min_cluster_size = 0
    /\ metric = ""
    /\ items = <<>>
    /\ items_with_embedding \in ItemLists
    /\ max_per_publisher \in 0..MaxLimit
    /\ sampled_items = <<>>
    /\ embeddings = <<>>
    /\ engineCall = NoCall
    /\ labels = <<>>
    /\ outputFile = <<>>
    /\ calls = {}

CallUniformSampling ==
    /\ pc = "call"
    /\ LET r == uniform_sampling(items_with_embedding, max_per_publisher) IN
         /\ sampled_items' = r.value
         /\ pc' = IF r.raised THEN "raised" ELSE "returned"
    /\ calls' = calls \cup {"uniform_sampling"}
    /\ UNCHANGED <<argv, min_cluster_size, metric, items, items_with_embedding,
                   max_per_publisher, embeddings, engineCall, labels, outputFile>>

NextSampling == CallUniformSampling

SpecSampling == InitSampling /\ [][NextSampling]_vars

----------------------------------------------------------------------------
(* run_hdbscan on its own *)

Coordinates == {-3 * Scale, 0, 4 * Scale}

Vectors == [1..2 -> Coordinates]

VectorLists == UNION { [1..k -> Vectors] : k \in 0..MaxVectors }

Metrics == {"euclidean", "cosine", "manhattan"}

InitHdbscan ==
    /\ pc = "call"
    /\ argv \in {a \in ArgvValues : a.n = 1}
    /\ min_cluster_size \in 1..(MaxVectors + 1)
    /\ metric \in Metrics
    /\ items = <<>>
    /\ items_with_embedding = <<>>
    /\ max_per_publisher = MaxPerPublisher
    /\ sampled_items = <<>>
    /\ embeddings \in VectorLists
    /\ engineCall = NoCall
    /\ labels = <<>>
    /\ outputFile = <<>>
    /\ calls = {}

CallRunHdbscan ==
    /\ pc = "call"
    /\ engineCall' = HdbscanCall(embeddings, min_cluster_size, metric)
    /\ \E ls \in LabelSequences(Len(embeddings)) : labels' = ls
    /\ calls' = calls \cup {"run_hdbscan"}
    /\ pc' = "returned"
    /\ UNCHANGED <<argv, min_cluster_size, metric, items, items_with_embedding,
                   max_per_publisher, sampled_items, embeddings, outputFile>>

NextHdbscan == CallRunHdbscan

SpecHdbscan == InitHdbscan /\ [][NextHdbscan]_vars

----------------------------------------------------------------------------
(* Properties *)

Range(seq) == {seq[k] : k \in 1..Len(seq)}

Count(seq, x) == Cardinality({k \in 1..Len(seq) : seq[k] = x})

RECURSIVE Flatten(_)
Flatten(cs) == IF cs = <<>> THEN <<>> ELSE Head(cs).items \o Flatten(Tail(cs))

\* every item of a written result: the clusters' items, then the noise
OutputItems(r) == Flatten(r.clusters) \o r.noise_items

PublisherCount(seq, p) ==
    Cardinality({k \in 1..Len(seq) : HasPublisher(seq[k]) /\ seq[k].source.publisher = p})

IdsIncrease(seq) == \A a, b \in 1..Len(seq) : a < b => seq[a].id < seq[b].id

NormalRun == "run_hdbscan" \in calls

Written == outputFile # <<>>

\* C1: a written result's stats.sampled_items is the number of items in its
\* clusters plus the number of its noise items, on either path.
C1_SampledCountsEveryOutputItem ==
    \A k \in 1..Len(outputFile) :
        outputFile[k].stats.sampled_items
            = SumItems(outputFile[k].clusters) + Len(outputFile[k].noise_items)

C1_Witness ==
    /\ pc = "done"
    /\ NormalRun
    /\ Len(outputFile[1].clusters) = 2
    /\ Len(outputFile[1].noise_items) >= 1
    /\ SumItems(outputFile[1].clusters) >= 3

\* C2: on the normal path every sampled item is in exactly one place of the
\* result: once in the noise list and in no cluster when its label is -1,
\* otherwise once in the one cluster whose cluster_id is its label, in no other
\* cluster and not in the noise list; and the result holds nothing else.
C2_EachSampledItemInExactlyOnePlace ==
    (pc = "done" /\ NormalRun) =>
        LET r == outputFile[1] IN
        /\ \A i \in 1..Len(sampled_items) :
             LET it == sampled_items[i] IN
             /\ Count(r.noise_items, it) = (IF labels[i] = NoiseLabel THEN 1 ELSE 0)
             /\ \A k \in 1..Len(r.clusters) :
                  Count(r.clusters[k].items, it)
                      = (IF r.clusters[k].cluster_id = labels[i] THEN 1 ELSE 0)
             /\ labels[i] # NoiseLabel =>
                  Cardinality({k \in 1..Len(r.clusters) : r.clusters[k].cluster_id = labels[i]}) = 1
        /\ Len(OutputItems(r)) = Len(sampled_items)

C2_Witness ==
    /\ pc = "done"
    /\ NormalRun
    /\ Len(sampled_items) = 4
    /\ Len(outputFile[1].noise_items) = 1
    /\ \E k \in 1..Len(outputFile[1].clusters) : Len(outputFile[1].clusters[k].items) = 2

\* C3: uniform_sampling returns at most max_per_publisher items of any one
\* publisher, and what it returns is a subsequence of its input in input order.
C3_CapAndSubsequence ==
    pc = "returned" =>
        /\ \A p \in Publishers : PublisherCount(sampled_items, p) <= max_per_publisher
        /\ \A k \in 1..Len(sampled_items) :
             /\ sampled_items[k].id \in 1..Len(items_with_embedding)
             /\ sampled_items[k] = items_with_embedding[sampled_items[k].id]
        /\ IdsIncrease(sampled_items)

C3_Witness ==
    /\ pc = "returned"
    /\ max_per_publisher = 1
    /\ PublisherCount(items_with_embedding, "pubA") = 2
    /\ PublisherCount(items_with_embedding, "pubB") = 2
    /\ Len(sampled_items) = 2

\* C4: uniform_sampling keeps the item at position i exactly when fewer than
\* max_per_publisher items of the same publisher stand before it, so it keeps
\* the first min(max_per_publisher, n) of a publisher's n items.
C4_FirstSeenGreedyCap ==
    pc = "returned" =>
        \A i \in 1..Len(items_with_embedding) :
            LET it == items_with_embedding[i]
                before == SubSeq(items_with_embedding, 1, i - 1)
            IN  (it \in Range(sampled_items))
                    <=> (PublisherCount(before, it.source.publisher) < max_per_publisher)

C4_Witness ==
    /\ pc = "returned"
    /\ max_per_publisher = 3
    /\ PublisherCount(items_with_embedding, "pubA") = 4
    /\ sampled_items = SubSeq(items_with_embedding, 1, 3)

\* C5 as stated: every written result holds at most 3 items of any one
\* publisher among its clusters' items and its noise items.
C5_EveryResultCapped ==
    \A k \in 1..Len(outputFile) :
        \A p \in Publishers : PublisherCount(OutputItems(outputFile[k]), p) <= MaxPerPublisher

\* C5 amended: a result written by the normal path (the one that samples
\* and clusters) holds at most 3 items of any one publisher among its
\* clusters' items and its noise items.
C5_NormalResultCapped ==
    (pc = "done" /\ NormalRun) =>
        \A p \in Publishers : PublisherCount(OutputItems(outputFile[1]), p) <= MaxPerPublisher

C5_Witness ==
    /\ pc = "done"
    /\ NormalRun
    /\ PublisherCount(items_with_embedding, "pubA") = 4
    /\ PublisherCount(OutputItems(outputFile[1]), "pubA") = 3

\* C6: when fewer items than min_cluster_size carry an embedding, neither
\* uniform_sampling nor run_hdbscan is called, and the result written has no
\* clusters, the filtered items in their order as noise_items, and
\* sampled_items = noise_items = the number of filtered items.
C6_DegeneratePath ==
    (pc \notin {"start", "loaded"}
       /\ Len(SelectSeq(items, HasEmbedding)) < min_cluster_size) =>
        /\ pc \notin {"sampled", "clustered"}
        /\ "uniform_sampling" \notin calls
        /\ "run_hdbscan" \notin calls
        /\ pc = "done" =>
             /\ Len(outputFile) = 1
             /\ outputFile[1].clusters = <<>>
             /\ outputFile[1].stats.clusters = 0
             /\ outputFile[1].noise_items = SelectSeq(items, HasEmbedding)
             /\ outputFile[1].stats.sampled_items = Len(SelectSeq(items, HasEmbedding))
             /\ outputFile[1].stats.noise_items = Len(SelectSeq(items, HasEmbedding))

C6_Witness ==
    /\ pc = "done"
    /\ ~NormalRun
    /\ Len(items) = 4
    /\ Len(outputFile[1].noise_items) = 2
    /\ min_cluster_size = 3

FirstIndex(ls, l) == CHOOSE i \in 1..Len(ls) : ls[i] = l /\ \A j \in 1..(i - 1) : ls[j] # l

\* C7: the clusters of the result stand in the order in which their labels
\* are first met scanning the labels by ascending index, and the items of
\* each cluster, and the noise items, stand in scan order.
C7_ClustersInFirstEncounterOrder ==
    (pc = "done" /\ NormalRun) =>
        LET cs == outputFile[1].clusters IN
        /\ \A k \in 1..Len(cs) : cs[k].cluster_id \in Range(labels)
        /\ \A a, b \in 1..Len(cs) :
             a < b => FirstIndex(labels, cs[a].cluster_id) < FirstIndex(labels, cs[b].cluster_id)
        /\ \A k \in 1..Len(cs) : IdsIncrease(cs[k].items)
        /\ IdsIncrease(outputFile[1].noise_items)

C7_Witness ==
    /\ pc = "done"
    /\ NormalRun
    /\ Len(outputFile[1].clusters) = 2
    /\ outputFile[1].clusters[1].cluster_id = 1
    /\ outputFile[1].clusters[2].cluster_id = 0
    /\ Len(outputFile[1].clusters[2].items) = 2

\* C8: with metric "cosine" run_hdbscan hands the clusterer exactly what it
\* hands it for the unit-normalized vectors with metric "euclidean" (so a
\* clusterer that is a function of its arguments answers with the same
\* labels); with any other metric it hands over the vectors as given, under
\* that metric name.
C8_CosineIsEuclideanOnNormalized ==
    (pc = "returned" /\ "run_hdbscan" \in calls) =>
        /\ metric = "cosine" =>
             engineCall = HdbscanCall(Normalize(embeddings), min_cluster_size, "euclidean")
        /\ metric # "cosine" =>
             /\ engineCall.X = embeddings
             /\ engineCall.metric = metric

C8_Witness ==
    /\ pc = "returned"
    /\ "run_hdbscan" \in calls
    /\ metric = "cosine"
    /\ Len(embeddings) = 2
    /\ engineCall.X[1] # embeddings[1]
    /\ 5 * engineCall.X[2][1] = -3 * Scale
    /\ 5 * engineCall.X[2][2] = 4 * Scale

\* C9: the output file is written at most once, only as the last step of a
\* run that succeeded; a run that failed has never written it.
C9_WrittenOnceAfterSuccess ==
    /\ Len(outputFile) <= 1
    /\ pc = "failed" => outputFile = <<>>
    /\ Written => pc = "done"

C9_Witness ==
    /\ pc = "failed"
    /\ "run_hdbscan" \in calls
    /\ Len(sampled_items) >= 1
    /\ outputFile = <<>>

\* C10: whenever main calls run_hdbscan with min_cluster_size >= 1, it hands
\* it at least min_cluster_size vectors.
C10_EngineGetsAtLeastMinClusterSize ==
    ("run_hdbscan" \in calls /\ min_cluster_size >= 1) =>
        Len(engineCall.X) >= engineCall.min_cluster_size

====
